---- MODULE Spec2Model ----
(***************************************************************************)
(* Model of src/bot.py (CatPlannerBot): the sqlite store (users, events,   *)
(* birthdays, photos), the two intake conversations, the settings          *)
(* handlers, the read-only views and the two periodic reminders.           *)
(*                                                                         *)
(* Text that the code formats, parses or compares (dates, times, callback  *)
(* data) is a sequence of one-character strings, so that strftime,         *)
(* strptime, isoformat and the SQL string comparisons are computed, not    *)
(* assumed.  Words the code compares whole (the Ukrainian literals, here   *)
(* transliterated) are one-token sequences.                                *)
(*                                                                         *)
(* Lines 802-804 of src/bot.py are stray text after main(); the methods    *)
(* that follow (start_add_birthday .. handle_photo) are modelled as the    *)
(* methods of CatPlannerBot that setup_handlers registers.                 *)
(***************************************************************************)
EXTENDS Integers, Sequences, FiniteSets, TLC

VARIABLES
    users,          \* table users: user_id -> row
    events,         \* table events, in rowid order
    birthdays,      \* table birthdays, in rowid order
    photos,         \* table photos, in rowid order
    conv_event,     \* event_conv state per user
    conv_birthday,  \* birthday_conv state per user
    user_data,      \* context.user_data per user (a dict: key -> value)
    now,            \* the process-local wall clock, [date, sec]
    out,            \* what the last operation sent, replied or raised
    jobs,           \* job_queue: next scheduled run of each repeating job
    selLog          \* history of the job queue's morning_reminder runs: who
                    \* was selected, and when

vars == <<users, events, birthdays, photos, conv_event, conv_birthday,
          user_data, now, out, jobs, selLog>>

store == <<users, events, birthdays, photos>>

(***************************************************************************)
(* Bounds of the model.                                                    *)
(***************************************************************************)
MaxEvents == 1
MaxBirthdays == 1
MaxPhotos == 1
MaxLatency == 1
MaxRuns == 4
MaxStored == 3

Users == {1, 2}

\* NULL: SQL NULL and None where a text may stand (it is no text the users
\* or the code produce).  None: Python's None where a date or a time may
\* stand.  ValueError: the outcome of a strptime that raises.
NULL == <<"NULL">>
None == [none |-> TRUE]
ValueError == [raises |-> "ValueError"]
NoError == "none"

(***************************************************************************)
(* Characters and numbers.                                                 *)
(***************************************************************************)
Digits == <<"0", "1", "2", "3", "4", "5", "6", "7", "8", "9">>

DigitSet == {"0", "1", "2", "3", "4", "5", "6", "7", "8", "9"}

IsDigit(c) == c \in DigitSet

DigitVal(c) ==
    CASE c = "0" -> 0 [] c = "1" -> 1 [] c = "2" -> 2 [] c = "3" -> 3
      [] c = "4" -> 4 [] c = "5" -> 5 [] c = "6" -> 6 [] c = "7" -> 7
      [] c = "8" -> 8 [] c = "9" -> 9

\* "%02d"
Pad2(n) == <<Digits[((n \div 10) % 10) + 1], Digits[(n % 10) + 1]>>

\* "%04d"
Pad4(n) == <<Digits[((n \div 1000) % 10) + 1], Digits[((n \div 100) % 10) + 1],
             Digits[((n \div 10) % 10) + 1], Digits[(n % 10) + 1]>>

AllDigits(s) == \A i \in 1..Len(s) : IsDigit(s[i])

RECURSIVE ToInt(_)
ToInt(s) == IF s = <<>> THEN 0
            ELSE 10 * ToInt(SubSeq(s, 1, Len(s) - 1)) + DigitVal(s[Len(s)])

\* str.strip()
RECURSIVE strip(_)
strip(s) ==
    IF s = <<>> THEN s
    ELSE IF Head(s) = " " THEN strip(Tail(s))
    ELSE IF s[Len(s)] = " " THEN strip(SubSeq(s, 1, Len(s) - 1))
    ELSE s

\* str.startswith / str.replace(prefix, '') on callback data, which holds the
\* prefix once, at its start
StartsWith(s, p) == Len(s) >= Len(p) /\ SubSeq(s, 1, Len(p)) = p

RemovePrefix(s, p) == IF StartsWith(s, p) THEN SubSeq(s, Len(p) + 1, Len(s)) ELSE s

(***************************************************************************)
(* Calendar (datetime.date, timedelta).                                    *)
(***************************************************************************)
Date(y, m, d) == [y |-> y, m |-> m, d |-> d]

IsLeap(y) == ((y % 4) = 0 /\ (y % 100) # 0) \/ (y % 400) = 0

DaysIn(y, m) ==
    IF m = 2 THEN (IF IsLeap(y) THEN 29 ELSE 28)
    ELSE IF m \in {4, 6, 9, 11} THEN 30 ELSE 31

ValidDate(y, m, d) == y \in 1..9999 /\ m \in 1..12 /\ d \in 1..DaysIn(y, m)

\* date + timedelta(days=1)
NextDay(dt) ==
    IF dt.d < DaysIn(dt.y, dt.m) THEN Date(dt.y, dt.m, dt.d + 1)
    ELSE IF dt.m < 12 THEN Date(dt.y, dt.m + 1, 1)
    ELSE Date(dt.y + 1, 1, 1)

\* date + timedelta(days=n)
RECURSIVE AddDays(_, _)
AddDays(dt, n) == IF n = 0 THEN dt ELSE AddDays(NextDay(dt), n - 1)

\* datetime.now().time() fields
Hour(t) == t.sec \div 3600
Minute(t) == (t.sec \div 60) % 60

(***************************************************************************)
(* Formatting and parsing (strftime, strptime, the sqlite3 date adapter,   *)
(* SQLite's strftime).                                                     *)
(***************************************************************************)
\* the parts of s between occurrences of sep
RECURSIVE SplitOn(_, _)
SplitOn(s, sep) ==
    IF \A i \in 1..Len(s) : s[i] # sep THEN <<s>>
    ELSE LET k == CHOOSE i \in 1..Len(s) :
                      s[i] = sep /\ \A j \in 1..(i - 1) : s[j] # sep
         IN  <<SubSeq(s, 1, k - 1)>> \o SplitOn(SubSeq(s, k + 1, Len(s)), sep)

\* a strptime field of lo..hi digits
Field(s, lo, hi) == Len(s) \in lo..hi /\ AllDigits(s)

\* sqlite3's adapter for datetime.date: date.isoformat(), 'YYYY-MM-DD'
isoformat(dt) == Pad4(dt.y) \o <<"-">> \o Pad2(dt.m) \o <<"-">> \o Pad2(dt.d)

\* datetime.strptime(text, '%d.%m.%Y').date(), or ValueError
strptime_dmY(text) ==
    LET p == SplitOn(text, ".")
    IN  IF Len(p) = 3 /\ Field(p[1], 1, 2) /\ Field(p[2], 1, 2) /\ Field(p[3], 4, 4)
           /\ ValidDate(ToInt(p[3]), ToInt(p[2]), ToInt(p[1]))
        THEN Date(ToInt(p[3]), ToInt(p[2]), ToInt(p[1]))
        ELSE ValueError

\* datetime.strptime(text, '%Y-%m-%d').date(), or ValueError
strptime_Ymd(text) ==
    LET p == SplitOn(text, "-")
    IN  IF Len(p) = 3 /\ Field(p[1], 4, 4) /\ Field(p[2], 1, 2) /\ Field(p[3], 1, 2)
           /\ ValidDate(ToInt(p[1]), ToInt(p[2]), ToInt(p[3]))
        THEN Date(ToInt(p[1]), ToInt(p[2]), ToInt(p[3]))
        ELSE ValueError

\* datetime.strptime(text, '%H:%M').time(), or ValueError
strptime_HM(text) ==
    LET p == SplitOn(text, ":")
    IN  IF Len(p) = 2 /\ Field(p[1], 1, 2) /\ Field(p[2], 1, 2)
           /\ ToInt(p[1]) \in 0..23 /\ ToInt(p[2]) \in 0..59
        THEN [h |-> ToInt(p[1]), mi |-> ToInt(p[2]), s |-> 0]
        ELSE ValueError

\* datetime.strptime(text, '%H:%M:%S'), or ValueError
strptime_HMS(text) ==
    LET p == SplitOn(text, ":")
    IN  IF Len(p) = 3 /\ Field(p[1], 1, 2) /\ Field(p[2], 1, 2) /\ Field(p[3], 1, 2)
           /\ ToInt(p[1]) \in 0..23 /\ ToInt(p[2]) \in 0..59 /\ ToInt(p[3]) \in 0..61
        THEN [h |-> ToInt(p[1]), mi |-> ToInt(p[2]), s |-> ToInt(p[3])]
        ELSE ValueError

\* time.strftime('%H:%M')
strftime_HM(h, mi) == Pad2(h) \o <<":">> \o Pad2(mi)

\* SQLite's time-of-day suffix of a date string: ' HH:MM' or ' HH:MM:SS'
SqliteTimeSuffix(s) ==
    /\ Len(s) \in {6, 9}
    /\ s[1] \in {" ", "T"}
    /\ LET p == SplitOn(Tail(s), ":")
       IN  /\ Len(p) \in {2, 3}
           /\ \A i \in 1..Len(p) : Field(p[i], 2, 2)
           /\ ToInt(p[1]) \in 0..24
           /\ \A i \in 2..Len(p) : ToInt(p[i]) \in 0..59

\* SQLite's strftime("%m-%d", s): NULL unless s is 'YYYY-MM-DD' with a month in
\* 1..12 and a day in 1..31, optionally followed by a time of day
sqlite_strftime_md(s) ==
    IF /\ Len(s) >= 10
       /\ Field(SubSeq(s, 1, 4), 4, 4) /\ s[5] = "-"
       /\ Field(SubSeq(s, 6, 7), 2, 2) /\ s[8] = "-"
       /\ Field(SubSeq(s, 9, 10), 2, 2)
       /\ ToInt(SubSeq(s, 6, 7)) \in 1..12
       /\ ToInt(SubSeq(s, 9, 10)) \in 1..31
       /\ (Len(s) = 10 \/ SqliteTimeSuffix(SubSeq(s, 11, Len(s))))
    THEN SubSeq(s, 6, 10)
    ELSE NULL

(***************************************************************************)
(* The store: schema defaults and the SQL queries.                         *)
(***************************************************************************)
DEFAULT_timezone == <<"Europe/Kiev">>
DEFAULT_morning_time == <<"0", "8", ":", "0", "0">>
disabled == <<"d", "i", "s", "a", "b", "l", "e", "d">>
AllDay == <<"Ves den">>

\* the elements of a set of integers, ascending (rowid order of users, whose
\* INTEGER PRIMARY KEY is the rowid)
RECURSIVE Ascending(_)
Ascending(S) ==
    IF S = {} THEN <<>>
    ELSE LET lo == CHOOSE x \in S : \A y \in S : x <= y
         IN  <<lo>> \o Ascending(S \ {lo})

CharCode(c) ==
    IF IsDigit(c) THEN 48 + DigitVal(c)
    ELSE IF c = " " THEN 32
    ELSE IF c = "-" THEN 45
    ELSE IF c = "." THEN 46
    ELSE IF c = ":" THEN 58
    ELSE 100

\* s < t as SQLite compares TEXT (BINARY collation)
RECURSIVE TextLess(_, _)
TextLess(s, t) ==
    IF t = <<>> THEN FALSE
    ELSE IF s = <<>> THEN TRUE
    ELSE IF Head(s) = Head(t) THEN TextLess(Tail(s), Tail(t))
    ELSE CharCode(Head(s)) < CharCode(Head(t))

\* a < b in ORDER BY event_time: NULL sorts first, then TEXT order
TimeBefore(a, b) ==
    IF a = NULL THEN b # NULL
    ELSE IF b = NULL THEN FALSE
    ELSE TextLess(a, b)

\* faulty variant: the query without ORDER BY event_time
OrderByEventTime_RowOrder(rows) == rows

\* ORDER BY event_time over rows in rowid order (ties stay in rowid order)
RECURSIVE OrderByEventTime(_)
OrderByEventTime(rows) ==
    IF rows = <<>> THEN <<>>
    ELSE LET k == CHOOSE i \in 1..Len(rows) :
                      /\ \A j \in 1..Len(rows) :
                            ~TimeBefore(rows[j].event_time, rows[i].event_time)
                      /\ \A j \in 1..(i - 1) :
                            TimeBefore(rows[i].event_time, rows[j].event_time)
             rest == [j \in 1..(Len(rows) - 1) |->
                         IF j < k THEN rows[j] ELSE rows[j + 1]]
         IN  <<rows[k]>> \o OrderByEventTime(rest)

\* faulty variant: only the users of the process's own timezone are matched
SelectMorningUsers_HomeZone(current) ==
    SelectSeq(Ascending(DOMAIN users),
              LAMBDA u : users[u].morning_time = current
                         /\ users[u].morning_time # disabled
                         /\ users[u].timezone = DEFAULT_timezone)

\* faulty variant: the WHERE clause without morning_time = ?
SelectMorningUsers_AnyTime(current) ==
    SelectSeq(Ascending(DOMAIN users), LAMBDA u : users[u].morning_time # disabled)

\* SELECT user_id FROM users WHERE morning_time = ? AND morning_time != 'disabled'
SelectMorningUsers(current) ==
    SelectSeq(Ascending(DOMAIN users),
              LAMBDA u : users[u].morning_time = current
                         /\ users[u].morning_time # disabled)

\* faulty variant: the users who disabled the morning reminder are left out
SelectAllUsers_Enabled ==
    SelectSeq(Ascending(DOMAIN users), LAMBDA u : users[u].morning_time # disabled)

\* SELECT user_id FROM users
SelectAllUsers == Ascending(DOMAIN users)

\* faulty variant: events matched like birthdays, on month and day alone
SelectEvents_MonthDay(user_id, date) ==
    SelectSeq(events, LAMBDA e : e.user_id = user_id
                                 /\ SubSeq(e.event_date, 6, 10)
                                        = SubSeq(isoformat(date), 6, 10))

\* SELECT ... FROM events WHERE user_id = ? AND event_date = ? ORDER BY event_time
\* (the date parameter goes through the sqlite3 date adapter)
SelectEvents(user_id, date) ==
    OrderByEventTime(
        SelectSeq(events, LAMBDA e : e.user_id = user_id
                                     /\ e.event_date = isoformat(date)))

\* faulty variant: strftime("%m", ...) on both sides
SelectBirthdays_MonthOnly(date) ==
    SelectSeq(birthdays,
              LAMBDA b : SubSeq(b.birth_date, 6, 7) = SubSeq(isoformat(date), 6, 7))

\* SELECT name, birth_date FROM birthdays
\* WHERE strftime("%m-%d", birth_date) = strftime("%m-%d", ?)
SelectBirthdays(date) ==
    LET md == sqlite_strftime_md(isoformat(date))
    IN  SelectSeq(birthdays,
                  LAMBDA b : LET bmd == sqlite_strftime_md(b.birth_date)
                             IN  bmd # NULL /\ bmd = md)

(***************************************************************************)
(* The payloads of the reminders and of the views.  A listed line keeps    *)
(* the rowid of the row it was made from (id), which the message text      *)
(* does not show, so that a line can be traced to its row.                 *)
(***************************************************************************)
\* age = today.year - birth_date.year  (reminders, today, birthdays)
AgeInYear(birth_date, today) == today.y - birth_date.y

\* faulty variant: save_birthday without the "age -= 1" branch
AgeAtSave_NoDecrement(birth_date, today) == today.y - birth_date.y

\* age at save_birthday: one less before this year's birthday
AgeAtSave(birth_date, today) ==
    IF today.m < birth_date.m \/ (today.m = birth_date.m /\ today.d < birth_date.d)
    THEN today.y - birth_date.y - 1
    ELSE today.y - birth_date.y

\* for name, birth_str in birthdays: strptime raises on a malformed birth_str
BirthdayLinesRaise(rows) ==
    \E i \in 1..Len(rows) : strptime_Ymd(rows[i].birth_date) = ValueError

\* for name, birth_str in birthdays: strptime, age, one line each
BirthdayLines(rows, today) ==
    [i \in 1..Len(rows) |->
        [id |-> rows[i].id, name |-> rows[i].name,
         age |-> AgeInYear(strptime_Ymd(rows[i].birth_date), today)]]

\* strptime(time_str, '%H:%M:%S') raises on a malformed time_str
TimeDisplayRaises(time_str) ==
    time_str # NULL /\ strptime_HMS(time_str) = ValueError

\* strptime(time_str, '%H:%M:%S').strftime('%H:%M') if time_str else all day
TimeDisplay(time_str) ==
    IF time_str = NULL THEN AllDay
    ELSE strftime_HM(strptime_HMS(time_str).h, strptime_HMS(time_str).mi)

EventLinesRaise(rows) ==
    \E i \in 1..Len(rows) : TimeDisplayRaises(rows[i].event_time)

\* for title, time_str in events: one line each
EventLines(rows) ==
    [i \in 1..Len(rows) |->
        [id |-> rows[i].id, title |-> rows[i].title,
         time |-> TimeDisplay(rows[i].event_time)]]

NoMessage == [birthdays |-> <<>>, events |-> <<>>]

\* building the message of morning_reminder and today raises ValueError
DayMessageRaises(user_id, today) ==
    \/ BirthdayLinesRaise(SelectBirthdays(today))
    \/ EventLinesRaise(SelectEvents(user_id, today))

\* the message morning_reminder and today build for one user
DayMessage(user_id, today) ==
    [birthdays |-> BirthdayLines(SelectBirthdays(today), today),
     events |-> EventLines(SelectEvents(user_id, today))]

\* one pass of morning_reminder's loop: the try block for one selected user
MorningAttempt(user_id, today, blocked) ==
    IF DayMessageRaises(user_id, today)
    THEN [chat_id |-> user_id, status |-> "not_built", message |-> NoMessage]
    ELSE [chat_id |-> user_id,
          status |-> IF user_id \in blocked THEN "send_failed" ELSE "sent",
          message |-> DayMessage(user_id, today)]

\* the loop of morning_reminder over the selected users
MorningLoop(selected, today, blocked) ==
    [i \in 1..Len(selected) |-> MorningAttempt(selected[i], today, blocked)]

\* morning_reminder at clock value t, with the chats in blocked unreachable
MorningResult(t, blocked) ==
    LET selected == SelectMorningUsers(strftime_HM(Hour(t), Minute(t)))
    IN  [op |-> "morning_reminder", at |-> t, body |-> TRUE, raised |-> NoError,
         due |-> IF selected = <<>> THEN <<>> ELSE SelectBirthdays(t.date),
         selected |-> selected,
         blocked |-> IF selected = <<>> THEN {} ELSE blocked,
         results |-> MorningLoop(selected, t.date, blocked)]

\* faulty variant: minute <= 5
MidnightGate_UpToFive(t) == Hour(t) = 0 /\ Minute(t) <= 5

\* if current_time.hour == 0 and current_time.minute < 5
MidnightGate(t) == Hour(t) = 0 /\ Minute(t) < 5

\* faulty variant: the try around the whole loop, so the first failure ends it
BirthdayLoop_StopAtFailure(recipients, message, blocked) ==
    LET n == IF \E i \in 1..Len(recipients) : recipients[i] \in blocked
             THEN CHOOSE i \in 1..Len(recipients) :
                      /\ recipients[i] \in blocked
                      /\ \A j \in 1..(i - 1) : recipients[j] \notin blocked
             ELSE Len(recipients)
    IN  [i \in 1..n |->
            [chat_id |-> recipients[i],
             status |-> IF recipients[i] \in blocked THEN "send_failed" ELSE "sent",
             message |-> message]]

\* the send loop of birthday_reminder: one try block per stored user
BirthdayLoop(recipients, message, blocked) ==
    [i \in 1..Len(recipients) |->
        [chat_id |-> recipients[i],
         status |-> IF recipients[i] \in blocked THEN "send_failed" ELSE "sent",
         message |-> message]]

\* birthday_reminder at clock value t, with the chats in blocked unreachable
BirthdayResult(t, blocked) ==
    LET due == SelectBirthdays(t.date)
        idle == [op |-> "birthday_reminder", at |-> t, body |-> FALSE,
                 raised |-> NoError, due |-> <<>>, selected |-> <<>>,
                 blocked |-> {}, results |-> <<>>]
    IN  IF ~MidnightGate(t) THEN idle
        ELSE IF due = <<>> THEN [idle EXCEPT !.body = TRUE]
        ELSE IF BirthdayLinesRaise(due)
             THEN [idle EXCEPT !.body = TRUE, !.raised = "ValueError", !.due = due,
                               !.selected = SelectAllUsers]
        ELSE [idle EXCEPT !.body = TRUE, !.due = due,
                          !.selected = SelectAllUsers, !.blocked = blocked,
                          !.results = BirthdayLoop(SelectAllUsers,
                                          [birthdays |-> BirthdayLines(due, t.date),
                                           events |-> <<>>],
                                          blocked)]

(***************************************************************************)
(* What the users send: profiles, texts, callback data.                    *)
(***************************************************************************)
\* update.effective_user: first_name and username of each Telegram account
Profile(u) == IF u = 1 THEN [first_name |-> <<"Olena">>, username |-> <<"olena">>]
              ELSE [first_name |-> <<"Taras">>, username |-> NULL]

\* callback_data of the buttons of change_time_menu
TimeButtons ==
    { <<"t", "i", "m", "e", "_">> \o strftime_HM(7, 0),
      <<"t", "i", "m", "e", "_">> \o strftime_HM(8, 0),
      <<"t", "i", "m", "e", "_">> \o disabled }

\* callback data that matches '^time_' and is no button of the menu: the
\* data of a callback query is chosen by the client that sends it
OtherTimeData == { <<"t", "i", "m", "e", "_", "2", "5", ":", "9", "9">> }

TimeCallbackData == TimeButtons \cup OtherTimeData

\* callback_data of the buttons of change_timezone_menu
TzButtons ==
    { <<"t", "z", "_", "Europe/Kiev">>, <<"t", "z", "_", "Europe/Warsaw">> }

TODAY_WORD == <<"sogodni">>
TOMORROW_WORD == <<"zavtra">>
ALL_DAY_WORD == <<"ves den">>
SKIP_WORD == <<"propustyty">>

\* str.lower() on the texts the users send here
lower(s) == [i \in 1..Len(s) |->
                IF s[i] = "Zavtra" THEN "zavtra"
                ELSE IF s[i] = "Propustyty" THEN "propustyty"
                ELSE s[i]]

EventNames == { <<"Dentist">> }
\* texts that are no date: 30 February, a word
MalformedEventDateTexts ==
    { Pad2(30) \o <<".">> \o Pad2(2) \o <<".">> \o Pad4(2023),
      <<"s", "o", "o", "n">> }
EventDateTexts ==
    { TODAY_WORD, <<"Zavtra">>,
      <<" ">> \o Pad2(1) \o <<".">> \o Pad2(3) \o <<".">> \o Pad4(2023) }
    \cup MalformedEventDateTexts
\* texts that are no time of day: hour 25
MalformedEventTimeTexts == { <<"2", "5", ":", "0", "0">> }
EventTimeTexts == { ALL_DAY_WORD, strftime_HM(15, 30) } \cup MalformedEventTimeTexts
DescriptionTexts == { <<"Propustyty">>, <<"bring card">> }
BirthdayNames == { <<"Mia">> }
\* texts that are no date: 29 February 1995, a two-digit year
MalformedBirthdayDateTexts ==
    { Pad2(29) \o <<".">> \o Pad2(2) \o <<".">> \o Pad4(1995),
      <<"1", ".", "3", ".", "9", "5">> }
BirthdayDateTexts ==
    { Pad2(29) \o <<".">> \o Pad2(2) \o <<".">> \o Pad4(2000),
      <<"1", ".", "3", ".">> \o Pad4(1995) }
    \cup MalformedBirthdayDateTexts
FileIds == { <<"AgAC">> }
Captions == { NULL }

\* chats whose send_message raises (blocked the bot, deleted account)
Blockings == SUBSET Users

(***************************************************************************)
(* The clock.  Handlers and reminders read it; it moves forward through    *)
(* the instants below.                                                     *)
(***************************************************************************)
At(y, m, d, h, mi, s) == [date |-> Date(y, m, d), sec |-> ((h * 60) + mi) * 60 + s]

ClockValues ==
    << At(2023, 2, 28, 23, 59, 0),
       At(2023, 3, 1, 0, 0, 0),
       At(2023, 3, 1, 0, 4, 59),
       At(2023, 3, 1, 0, 5, 0),
       At(2023, 3, 1, 8, 0, 0),
       At(2023, 3, 1, 8, 1, 0),
       At(2024, 2, 29, 0, 0, 0),
       At(2024, 3, 1, 8, 0, 0) >>

ClockIndex(t) == CHOOSE i \in 1..Len(ClockValues) : ClockValues[i] = t

(***************************************************************************)
(* Dictionaries (context.user_data).                                       *)
(***************************************************************************)
EmptyDict == <<>>

Put(d, k, v) == [x \in DOMAIN d \cup {k} |-> IF x = k THEN v ELSE d[x]]

Has(d, k) == k \in DOMAIN d

END == "END"

\* the job queue before run() registers the jobs
Idle == [started |-> FALSE, t0 |-> None, morning |-> 0, birthday |-> 0,
         elapsed |-> 0, runs |-> 0]

Reply(op, u) == [op |-> op, user |-> u]

(***************************************************************************)
(* Init: a fresh database (init_database creates the empty tables), no     *)
(* conversation open, the job queue not started.                           *)
(***************************************************************************)
Init ==
    /\ users = <<>>
    /\ events = <<>>
    /\ birthdays = <<>>
    /\ photos = <<>>
    /\ conv_event = [u \in Users |-> END]
    /\ conv_birthday = [u \in Users |-> END]
    /\ user_data = [u \in Users |-> EmptyDict]
    /\ now = ClockValues[1]
    /\ out = [op |-> "init"]
    /\ jobs = Idle
    /\ selLog = {}

\* which handler of group 0 takes a text message of user u: event_conv is
\* registered before birthday_conv, and both before handle_text
TextToEventConv(u) == conv_event[u] # END
TextToBirthdayConv(u) == conv_event[u] = END /\ conv_birthday[u] # END
TextToHandleText(u) == conv_event[u] = END /\ conv_birthday[u] = END

\* INSERT OR REPLACE INTO users (user_id, first_name, username): the row of
\* user_id is replaced by a new row, whose other columns take their defaults
NewUserRow(u) ==
    [first_name |-> Profile(u).first_name,
     username |-> Profile(u).username,
     timezone |-> DEFAULT_timezone,
     morning_time |-> DEFAULT_morning_time]

UpsertUser(u) ==
    [x \in DOMAIN users \cup {u} |-> IF x = u THEN NewUserRow(u) ELSE users[x]]

\* faulty variant: replacing the users row deletes the rows that refer to it
start_Cascade(u) ==
    /\ users' = UpsertUser(u)
    /\ events' = SelectSeq(events, LAMBDA e : e.user_id # u)
    /\ birthdays' = SelectSeq(birthdays, LAMBDA b : b.user_id # u)
    /\ photos' = SelectSeq(photos, LAMBDA f : f.user_id # u)
    /\ out' = Reply("start", u)
    /\ UNCHANGED <<conv_event, conv_birthday, user_data, now, jobs, selLog>>

start(u) ==
    /\ users' = UpsertUser(u)
    /\ out' = Reply("start", u)
    /\ UNCHANGED <<events, birthdays, photos, conv_event, conv_birthday,
                   user_data, now, jobs, selLog>>

\* faulty variant: the UPDATE without its WHERE clause
UpdateMorningTime_NoWhere(u, time_setting) ==
    [x \in DOMAIN users |-> [users[x] EXCEPT !.morning_time = time_setting]]

\* UPDATE users SET morning_time = ? WHERE user_id = ?
UpdateMorningTime(u, time_setting) ==
    [x \in DOMAIN users |->
        IF x = u THEN [users[x] EXCEPT !.morning_time = time_setting]
        ELSE users[x]]

\* the set_time that setup_handlers registers is the second definition
set_time(u, data) ==
    /\ StartsWith(data, <<"t", "i", "m", "e", "_">>)
    /\ users' = UpdateMorningTime(u, RemovePrefix(data, <<"t", "i", "m", "e", "_">>))
    /\ out' = [op |-> "set_time", user |-> u,
               time_setting |-> RemovePrefix(data, <<"t", "i", "m", "e", "_">>)]
    /\ UNCHANGED <<events, birthdays, photos, conv_event, conv_birthday,
                   user_data, now, jobs, selLog>>

\* UPDATE users SET timezone = ? WHERE user_id = ?
UpdateTimezone(u, timezone) ==
    [x \in DOMAIN users |->
        IF x = u THEN [users[x] EXCEPT !.timezone = timezone] ELSE users[x]]

set_timezone(u, data) ==
    /\ StartsWith(data, <<"t", "z", "_">>)
    /\ users' = UpdateTimezone(u, RemovePrefix(data, <<"t", "z", "_">>))
    /\ out' = Reply("set_timezone", u)
    /\ UNCHANGED <<events, birthdays, photos, conv_event, conv_birthday,
                   user_data, now, jobs, selLog>>

(***************************************************************************)
(* Event intake.                                                           *)
(***************************************************************************)
start_add_event(u) ==
    /\ conv_event[u] = END
    /\ conv_event' = [conv_event EXCEPT ![u] = "ADDING_EVENT_NAME"]
    /\ out' = Reply("start_add_event", u)
    /\ UNCHANGED <<store, conv_birthday, user_data, now, jobs, selLog>>

get_event_name(u, text) ==
    /\ conv_event[u] = "ADDING_EVENT_NAME"
    /\ user_data' = [user_data EXCEPT ![u] = Put(@, "event_name", text)]
    /\ conv_event' = [conv_event EXCEPT ![u] = "ADDING_EVENT_DATE"]
    /\ out' = Reply("get_event_name", u)
    /\ UNCHANGED <<store, conv_birthday, now, jobs, selLog>>

\* the try block of get_event_date
EventDateOf(date_text, today) ==
    IF date_text = TODAY_WORD THEN today
    ELSE IF date_text = TOMORROW_WORD THEN NextDay(today)
    ELSE strptime_dmY(date_text)

get_event_date(u, text) ==
    /\ conv_event[u] = "ADDING_EVENT_DATE"
    /\ LET event_date == EventDateOf(strip(lower(text)), now.date)
       IN  IF event_date = ValueError
           THEN /\ out' = [op |-> "get_event_date", user |-> u, text |-> text,
                           raised |-> NoError, reprompt |-> TRUE]
                /\ UNCHANGED <<conv_event, user_data>>
           ELSE /\ user_data' = [user_data EXCEPT ![u] = Put(@, "event_date", event_date)]
                /\ conv_event' = [conv_event EXCEPT ![u] = "ADDING_EVENT_TIME"]
                /\ out' = [op |-> "get_event_date", user |-> u, text |-> text,
                           raised |-> NoError, reprompt |-> FALSE]
    /\ UNCHANGED <<store, conv_birthday, now, jobs, selLog>>

\* faulty variant: a time that does not parse is taken as no time
EventTimeOf_Lenient(time_text) ==
    IF time_text = ALL_DAY_WORD \/ strptime_HM(time_text) = ValueError THEN None
    ELSE strptime_HM(time_text)

EventTimeOf(time_text) ==
    IF time_text = ALL_DAY_WORD THEN None ELSE strptime_HM(time_text)

get_event_time(u, text) ==
    /\ conv_event[u] = "ADDING_EVENT_TIME"
    /\ LET event_time == EventTimeOf(strip(lower(text)))
       IN  IF event_time = ValueError
           THEN /\ out' = [op |-> "get_event_time", user |-> u, text |-> text,
                           raised |-> NoError, reprompt |-> TRUE]
                /\ UNCHANGED <<conv_event, user_data>>
           ELSE /\ user_data' = [user_data EXCEPT ![u] = Put(@, "event_time", event_time)]
                /\ conv_event' = [conv_event EXCEPT ![u] = "ADDING_EVENT_DESC"]
                /\ out' = [op |-> "get_event_time", user |-> u, text |-> text,
                           raised |-> NoError, reprompt |-> FALSE]
    /\ UNCHANGED <<store, conv_birthday, now, jobs, selLog>>

\* description = text.strip(); None when it is the skip word
DescriptionOf(text) ==
    IF lower(strip(text)) = SKIP_WORD THEN NULL ELSE strip(text)

\* the row save_event inserts; id is the AUTOINCREMENT rowid
EventRow(u, d, text) ==
    [id |-> Len(events) + 1, user_id |-> u, title |-> d["event_name"],
     description |-> DescriptionOf(text),
     event_date |-> isoformat(d["event_date"]), event_time |-> NULL]

\* save_event: a KeyError when user_data lacks a key; sqlite3 has no adapter
\* for datetime.time, so binding an event_time that is not None raises
\* ProgrammingError before anything is inserted; after the INSERT is
\* committed, reply_text(..., reply_markup=keyboard) raises NameError, for
\* save_event binds no keyboard.  The handler never returns a state.
save_event(u, text) ==
    /\ conv_event[u] = "ADDING_EVENT_DESC"
    /\ LET d == user_data[u]
       IN  IF ~(Has(d, "event_name") /\ Has(d, "event_date") /\ Has(d, "event_time"))
           THEN /\ out' = [op |-> "save_event", user |-> u, raised |-> "KeyError",
                           stored |-> FALSE]
                /\ UNCHANGED events
           ELSE IF d["event_time"] # None
           THEN /\ out' = [op |-> "save_event", user |-> u,
                           raised |-> "ProgrammingError", stored |-> FALSE]
                /\ UNCHANGED events
           ELSE /\ events' = Append(events, EventRow(u, d, text))
                /\ out' = [op |-> "save_event", user |-> u, raised |-> "NameError",
                           stored |-> TRUE]
    /\ UNCHANGED <<users, birthdays, photos, conv_event, conv_birthday, user_data,
                   now, jobs, selLog>>

\* cancel is the fallback of both conversations; event_conv sees the
\* callback first
cancel(u) ==
    /\ conv_event[u] # END \/ conv_birthday[u] # END
    /\ IF conv_event[u] # END
       THEN /\ conv_event' = [conv_event EXCEPT ![u] = END]
            /\ UNCHANGED conv_birthday
       ELSE /\ conv_birthday' = [conv_birthday EXCEPT ![u] = END]
            /\ UNCHANGED conv_event
    /\ user_data' = [user_data EXCEPT ![u] = EmptyDict]
    /\ out' = Reply("cancel", u)
    /\ UNCHANGED <<store, now, jobs, selLog>>

(***************************************************************************)
(* Birthday intake.                                                        *)
(***************************************************************************)
start_add_birthday(u) ==
    /\ conv_birthday[u] = END
    /\ conv_birthday' = [conv_birthday EXCEPT ![u] = "ADDING_BIRTHDAY_NAME"]
    /\ out' = Reply("start_add_birthday", u)
    /\ UNCHANGED <<store, conv_event, user_data, now, jobs, selLog>>

get_birthday_name(u, text) ==
    /\ TextToBirthdayConv(u)
    /\ conv_birthday[u] = "ADDING_BIRTHDAY_NAME"
    /\ user_data' = [user_data EXCEPT ![u] = Put(@, "birthday_name", text)]
    /\ conv_birthday' = [conv_birthday EXCEPT ![u] = "ADDING_BIRTHDAY_DATE"]
    /\ out' = Reply("get_birthday_name", u)
    /\ UNCHANGED <<store, conv_event, now, jobs, selLog>>

\* the row save_birthday inserts
BirthdayRow(u, name, birth_date) ==
    [id |-> Len(birthdays) + 1, user_id |-> u, name |-> name,
     birth_date |-> isoformat(birth_date)]

\* save_birthday: ValueError re-prompts; a missing birthday_name is a
\* KeyError, raised while the INSERT's parameters are built
save_birthday(u, text) ==
    /\ TextToBirthdayConv(u)
    /\ conv_birthday[u] = "ADDING_BIRTHDAY_DATE"
    /\ LET birth_date == strptime_dmY(strip(text))
       IN  IF birth_date = ValueError
           THEN /\ out' = [op |-> "save_birthday", user |-> u, text |-> text,
                           raised |-> NoError, stored |-> FALSE, reprompt |-> TRUE]
                /\ UNCHANGED <<birthdays, conv_birthday, user_data>>
           ELSE IF ~Has(user_data[u], "birthday_name")
           THEN /\ out' = [op |-> "save_birthday", user |-> u, text |-> text,
                           raised |-> "KeyError", stored |-> FALSE,
                           reprompt |-> FALSE]
                /\ UNCHANGED <<birthdays, conv_birthday, user_data>>
           ELSE /\ birthdays' = Append(birthdays,
                                   BirthdayRow(u, user_data[u]["birthday_name"], birth_date))
                /\ user_data' = [user_data EXCEPT ![u] = EmptyDict]
                /\ conv_birthday' = [conv_birthday EXCEPT ![u] = END]
                /\ out' = [op |-> "save_birthday", user |-> u, text |-> text,
                           raised |-> NoError, stored |-> TRUE, reprompt |-> FALSE,
                           id |-> Len(birthdays) + 1, today |-> now.date,
                           age |-> AgeAtSave(birth_date, now.date)]
    /\ UNCHANGED <<users, events, photos, conv_event, now, jobs, selLog>>

(***************************************************************************)
(* Other messages.                                                         *)
(***************************************************************************)
\* a text outside both conversations: quick_schedule or a stock answer
handle_text(u) ==
    /\ TextToHandleText(u)
    /\ out' = Reply("handle_text", u)
    /\ UNCHANGED <<store, conv_event, conv_birthday, user_data, now, jobs, selLog>>

\* INSERT INTO photos (user_id, file_id, caption); caption or ""
handle_photo(u, file_id, caption) ==
    /\ photos' = Append(photos,
                     [id |-> Len(photos) + 1, user_id |-> u, file_id |-> file_id,
                      caption |-> IF caption = NULL THEN <<>> ELSE caption])
    /\ out' = Reply("handle_photo", u)
    /\ UNCHANGED <<users, events, birthdays, conv_event, conv_birthday, user_data,
                   now, jobs, selLog>>

(***************************************************************************)
(* Views.                                                                  *)
(***************************************************************************)
today(u) ==
    /\ out' = [op |-> "today", user |-> u, at |-> now,
               raised |-> IF DayMessageRaises(u, now.date) THEN "ValueError"
                          ELSE NoError,
               message |-> IF DayMessageRaises(u, now.date) THEN NoMessage
                           ELSE DayMessage(u, now.date)]
    /\ UNCHANGED <<store, conv_event, conv_birthday, user_data, now, jobs, selLog>>

\* week: for i in range(7), the user's events and the birthdays of that day
WeekDay(u, date) ==
    [date |-> date,
     birthdays |-> [i \in 1..Len(SelectBirthdays(date)) |->
                       [id |-> SelectBirthdays(date)[i].id,
                        name |-> SelectBirthdays(date)[i].name]],
     events |-> EventLines(SelectEvents(u, date))]

WeekRaises(u, day0) ==
    \E i \in 0..6 : EventLinesRaise(SelectEvents(u, AddDays(day0, i)))

week(u) ==
    /\ LET days == [i \in 1..7 |-> WeekDay(u, AddDays(now.date, i - 1))]
           bad == WeekRaises(u, now.date)
       IN  out' = [op |-> "week", user |-> u, at |-> now,
                   raised |-> IF bad THEN "ValueError" ELSE NoError,
                   days |-> IF bad THEN <<>> ELSE days]
    /\ UNCHANGED <<store, conv_event, conv_birthday, user_data, now, jobs, selLog>>

LookaheadDays == 30

\* birthdays: for i in range(30), the birthdays of today + i days, each with
\* age = check_date.year - birth_date.year
LookaheadRaises(day0) ==
    \E i \in 0..(LookaheadDays - 1) :
        BirthdayLinesRaise(SelectBirthdays(AddDays(day0, i)))

\* faulty variant: the loop starts at tomorrow, range(1, 30)
RECURSIVE Lookahead_FromTomorrow(_, _)
Lookahead_FromTomorrow(check_date, i) ==
    IF i = LookaheadDays THEN <<>>
    ELSE LET rows == IF i = 0 THEN <<>> ELSE SelectBirthdays(check_date)
             lines == BirthdayLines(rows, check_date)
         IN  [k \in 1..Len(rows) |->
                 [offset |-> i, date |-> check_date, id |-> lines[k].id,
                  name |-> lines[k].name, age |-> lines[k].age]]
             \o Lookahead_FromTomorrow(NextDay(check_date), i + 1)

\* check_date is day0 + i days, carried along
RECURSIVE Lookahead(_, _)
Lookahead(check_date, i) ==
    IF i = LookaheadDays THEN <<>>
    ELSE LET rows == SelectBirthdays(check_date)
             lines == BirthdayLines(rows, check_date)
         IN  [k \in 1..Len(rows) |->
                 [offset |-> i, date |-> check_date, id |-> lines[k].id,
                  name |-> lines[k].name, age |-> lines[k].age]]
             \o Lookahead(NextDay(check_date), i + 1)

Birthdays(u) ==
    /\ LET bad == LookaheadRaises(now.date)
       IN  out' = [op |-> "birthdays", user |-> u, at |-> now,
                   raised |-> IF bad THEN "ValueError" ELSE NoError,
                   listed |-> IF bad THEN <<>> ELSE Lookahead(now.date, 0)]
    /\ UNCHANGED <<store, conv_event, conv_birthday, user_data, now, jobs, selLog>>

(***************************************************************************)
(* The reminders, run at the current clock value, and the clock.           *)
(***************************************************************************)
morning_reminder(blocked) ==
    /\ out' = MorningResult(now, blocked)
    /\ UNCHANGED <<store, conv_event, conv_birthday, user_data, now, jobs, selLog>>

birthday_reminder(blocked) ==
    /\ out' = BirthdayResult(now, blocked)
    /\ UNCHANGED <<store, conv_event, conv_birthday, user_data, now, jobs, selLog>>

\* time passes; what the last operation produced is no longer looked at
ClockAdvance ==
    /\ \E i \in 1..Len(ClockValues) : i > ClockIndex(now) /\ now' = ClockValues[i]
    /\ out' = [op |-> "clock"]
    /\ UNCHANGED <<store, conv_event, conv_birthday, user_data, jobs, selLog>>

(***************************************************************************)
(* The whole program: every handler that setup_handlers registers and      *)
(* that writes, every view the claims speak of, both reminders.  The       *)
(* tables grow without bound, so the specifications that are checked are   *)
(* the ones below, each the program with its users keeping to a part of    *)
(* the menu and the tables capped.                                         *)
(***************************************************************************)
Next ==
    \/ \E u \in Users : start(u)
    \/ \E u \in Users, data \in TimeCallbackData : set_time(u, data)
    \/ \E u \in Users, data \in TzButtons : set_timezone(u, data)
    \/ \E u \in Users : start_add_event(u)
    \/ \E u \in Users, text \in EventNames : get_event_name(u, text)
    \/ \E u \in Users, text \in EventDateTexts : get_event_date(u, text)
    \/ \E u \in Users, text \in EventTimeTexts : get_event_time(u, text)
    \/ \E u \in Users, text \in DescriptionTexts : save_event(u, text)
    \/ \E u \in Users : cancel(u)
    \/ \E u \in Users : start_add_birthday(u)
    \/ \E u \in Users, text \in BirthdayNames : get_birthday_name(u, text)
    \/ \E u \in Users, text \in BirthdayDateTexts : save_birthday(u, text)
    \/ \E u \in Users, f \in FileIds, c \in Captions : handle_photo(u, f, c)
    \/ \E u \in Users : handle_text(u)
    \/ \E u \in Users : today(u)
    \/ \E u \in Users : week(u)
    \/ \E u \in Users : Birthdays(u)
    \/ \E blocked \in Blockings : morning_reminder(blocked)
    \/ \E blocked \in Blockings : birthday_reminder(blocked)
    \/ ClockAdvance

Spec == Init /\ [][Next]_vars

(***************************************************************************)
(* SpecSettings: the users start the bot, change the reminder time and     *)
(* send photos; both reminders run.                                        *)
(***************************************************************************)
NextSettings ==
    \/ \E u \in Users : start(u)
    \/ \E u \in Users, data \in TimeCallbackData : set_time(u, data)
    \/ \E u \in Users, data \in TzButtons : set_timezone(u, data)
    \/ \E u \in Users, f \in FileIds, c \in Captions :
          Len(photos) < MaxPhotos /\ handle_photo(u, f, c)
    \/ \E blocked \in Blockings : morning_reminder(blocked)
    \/ \E blocked \in Blockings : birthday_reminder(blocked)
    \/ ClockAdvance

SpecSettings == Init /\ [][NextSettings]_vars

(***************************************************************************)
(* SpecBirthdays: the users start the bot, the users in Planners add       *)
(* birthdays; the views and both reminders run.                            *)
(***************************************************************************)
Planners == {1}

NextBirthdays ==
    \/ \E u \in Users : start(u)
    \/ \E u \in Planners : start_add_birthday(u)
    \/ \E u \in Planners, text \in BirthdayNames : get_birthday_name(u, text)
    \/ \E u \in Planners, text \in BirthdayDateTexts :
          Len(birthdays) < MaxBirthdays /\ save_birthday(u, text)
    \/ \E u \in Planners : cancel(u)
    \/ \E u \in Users : today(u)
    \/ \E u \in Users : Birthdays(u)
    \/ \E blocked \in Blockings : morning_reminder(blocked)
    \/ \E blocked \in Blockings : birthday_reminder(blocked)
    \/ ClockAdvance

SpecBirthdays == Init /\ [][NextBirthdays]_vars

(***************************************************************************)
(* SpecEvents: the users start the bot, the users in Planners add events;  *)
(* today, week and the morning reminder run.                               *)
(***************************************************************************)
NextEvents ==
    \/ \E u \in Users : start(u)
    \/ \E u \in Planners : start_add_event(u)
    \/ \E u \in Planners, text \in EventNames : get_event_name(u, text)
    \/ \E u \in Planners, text \in EventDateTexts : get_event_date(u, text)
    \/ \E u \in Planners, text \in EventTimeTexts : get_event_time(u, text)
    \/ \E u \in Planners, text \in DescriptionTexts :
          Len(events) < MaxEvents /\ save_event(u, text)
    \/ \E u \in Planners : cancel(u)
    \/ \E u \in Users : today(u)
    \/ \E u \in Users : week(u)
    \/ \E blocked \in Blockings : morning_reminder(blocked)
    \/ ClockAdvance

SpecEvents == Init /\ [][NextEvents]_vars

(***************************************************************************)
(* SpecIntake: the users in Planners walk through both intakes, cancel,    *)
(* and send texts outside them.                                            *)
(***************************************************************************)
NextIntake ==
    \/ \E u \in Planners : start(u)
    \/ \E u \in Planners : start_add_event(u)
    \/ \E u \in Planners, text \in EventNames : get_event_name(u, text)
    \/ \E u \in Planners, text \in EventDateTexts : get_event_date(u, text)
    \/ \E u \in Planners, text \in EventTimeTexts : get_event_time(u, text)
    \/ \E u \in Planners, text \in DescriptionTexts :
          Len(events) < MaxEvents /\ save_event(u, text)
    \/ \E u \in Planners : cancel(u)
    \/ \E u \in Planners : start_add_birthday(u)
    \/ \E u \in Planners, text \in BirthdayNames : get_birthday_name(u, text)
    \/ \E u \in Planners, text \in BirthdayDateTexts :
          Len(birthdays) < MaxBirthdays /\ save_birthday(u, text)
    \/ \E u \in Planners : handle_text(u)

SpecIntake == Init /\ [][NextIntake]_vars

(***************************************************************************)
(* SpecRecords: the users in Planners use every handler that writes: the   *)
(* settings, both intakes (one at a time), cancel, photos; both reminders  *)
(* run.                                                                    *)
(***************************************************************************)
NextRecords ==
    \/ \E u \in Planners : start(u)
    \/ \E u \in Planners, data \in TimeButtons : set_time(u, data)
    \/ \E u \in Planners, data \in TzButtons : set_timezone(u, data)
    \/ \E u \in Planners : conv_birthday[u] = END /\ start_add_event(u)
    \/ \E u \in Planners, text \in EventNames : get_event_name(u, text)
    \/ \E u \in Planners, text \in EventDateTexts : get_event_date(u, text)
    \/ \E u \in Planners, text \in EventTimeTexts : get_event_time(u, text)
    \/ \E u \in Planners, text \in DescriptionTexts :
          Len(events) < MaxEvents /\ save_event(u, text)
    \/ \E u \in Planners : cancel(u)
    \/ \E u \in Planners : conv_event[u] = END /\ start_add_birthday(u)
    \/ \E u \in Planners, text \in BirthdayNames : get_birthday_name(u, text)
    \/ \E u \in Planners, text \in BirthdayDateTexts :
          Len(birthdays) < MaxBirthdays /\ save_birthday(u, text)
    \/ \E u \in Planners, f \in FileIds, c \in Captions :
          Len(photos) < MaxPhotos /\ handle_photo(u, f, c)
    \/ \E blocked \in Blockings : morning_reminder(blocked)
    \/ \E blocked \in Blockings : birthday_reminder(blocked)

SpecRecords == Init /\ [][NextRecords]_vars

(***************************************************************************)
(* SpecMidnight: the users start the bot and choose their reminder time,   *)
(* the users in Planners add birthdays; birthday_reminder runs.            *)
(***************************************************************************)
NextMidnight ==
    \/ \E u \in Users : start(u)
    \/ \E u \in Users, data \in TimeButtons : set_time(u, data)
    \/ \E u \in Planners : start_add_birthday(u)
    \/ \E u \in Planners, text \in BirthdayNames : get_birthday_name(u, text)
    \/ \E u \in Planners, text \in BirthdayDateTexts :
          Len(birthdays) < MaxBirthdays /\ save_birthday(u, text)
    \/ \E blocked \in Blockings : birthday_reminder(blocked)
    \/ ClockAdvance

SpecMidnight == Init /\ [][NextMidnight]_vars

(***************************************************************************)
(* SpecSched: the reminders as the job queue runs them.  run() registers   *)
(* morning_reminder every 60 s and birthday_reminder every 300 s, both     *)
(* first due 10 s after the start.  A job's callback reads the clock when  *)
(* it runs, which is at its scheduled time or up to MaxLatency seconds     *)
(* later; time does not pass the latest moment a pending job may run.      *)
(* Times of the job queue are seconds since the start of the process.      *)
(***************************************************************************)
MorningInterval == 60
BirthdayInterval == 300
FirstRun == 10

\* the clock value n seconds after t
RECURSIVE ClockPlus(_, _)
ClockPlus(t, n) ==
    IF t.sec + n < 86400 THEN [date |-> t.date, sec |-> t.sec + n]
    ELSE ClockPlus([date |-> NextDay(t.date), sec |-> 0], t.sec + n - 86400)

\* the instants at which the process starts
StartClocks ==
    { At(2023, 3, 1, 7, 59, 49), At(2023, 3, 1, 7, 59, 50),
      At(2023, 2, 28, 23, 59, 49) }

InitSched ==
    /\ users = <<>>
    /\ events = <<>>
    /\ birthdays = <<>>
    /\ photos = <<>>
    /\ conv_event = [u \in Users |-> END]
    /\ conv_birthday = [u \in Users |-> END]
    /\ user_data = [u \in Users |-> EmptyDict]
    /\ now \in StartClocks
    /\ out = [op |-> "init"]
    /\ jobs = Idle
    /\ selLog = {}

\* run(): run_repeating(morning_reminder, interval=60, first=10) and
\* run_repeating(birthday_reminder, interval=300, first=10), then polling
run ==
    /\ ~jobs.started
    /\ jobs' = [started |-> TRUE, t0 |-> now, morning |-> FirstRun,
                birthday |-> FirstRun, elapsed |-> 0, runs |-> 0]
    /\ out' = [op |-> "run"]
    /\ UNCHANGED <<store, conv_event, conv_birthday, user_data, now, selLog>>

\* faulty variant: the morning job repeated every 30 s
NextMorningRun_HalfMinute(scheduled) == scheduled + 30

\* the scheduled time of the run after the one scheduled at this time
NextMorningRun(scheduled) == scheduled + MorningInterval

\* faulty variant: the midnight job repeated every 10 minutes
NextBirthdayRun_TenMinutes(scheduled) == scheduled + 600

NextBirthdayRun(scheduled) == scheduled + BirthdayInterval

\* when a job scheduled at this time may run, the other job being scheduled
\* at time other
RunTimes(scheduled, other) ==
    {r \in scheduled..(scheduled + MaxLatency) :
        r >= jobs.elapsed /\ r <= other + MaxLatency}

\* faulty variant: a run leaves out the users that an earlier run selected
\* in the same minute
run_morning_job_Once(r, blocked) ==
    /\ jobs.started
    /\ jobs.runs < MaxRuns
    /\ r \in RunTimes(jobs.morning, jobs.birthday)
    /\ now' = ClockPlus(jobs.t0, r)
    /\ LET res == MorningResult(now', blocked)
           seen == UNION {e.selected : e \in {x \in selLog :
                             x.at.date = now'.date
                             /\ x.at.sec \div 60 = now'.sec \div 60}}
           sel == SelectSeq(res.selected, LAMBDA u : u \notin seen)
       IN  /\ out' = [res EXCEPT !.selected = sel,
                                 !.results = MorningLoop(sel, now'.date, blocked)]
           /\ selLog' = selLog \cup
                    {[run |-> jobs.runs + 1, at |-> now', late |-> r - jobs.morning,
                      selected |-> {sel[i] : i \in DOMAIN sel}]}
    /\ jobs' = [jobs EXCEPT !.morning = NextMorningRun(@), !.elapsed = r,
                            !.runs = @ + 1]
    /\ UNCHANGED <<store, conv_event, conv_birthday, user_data>>

\* the job queue runs morning_reminder at time r
run_morning_job(r, blocked) ==
    /\ jobs.started
    /\ jobs.runs < MaxRuns
    /\ r \in RunTimes(jobs.morning, jobs.birthday)
    /\ now' = ClockPlus(jobs.t0, r)
    /\ out' = MorningResult(now', blocked)
    /\ selLog' = selLog \cup
                    {[run |-> jobs.runs + 1, at |-> now', late |-> r - jobs.morning,
                      selected |-> {out'.selected[i] : i \in DOMAIN out'.selected}]}
    /\ jobs' = [jobs EXCEPT !.morning = NextMorningRun(@), !.elapsed = r,
                            !.runs = @ + 1]
    /\ UNCHANGED <<store, conv_event, conv_birthday, user_data>>

\* the job queue runs birthday_reminder at time r
run_birthday_job(r, blocked) ==
    /\ jobs.started
    /\ jobs.runs < MaxRuns
    /\ r \in RunTimes(jobs.birthday, jobs.morning)
    /\ now' = ClockPlus(jobs.t0, r)
    /\ out' = BirthdayResult(now', blocked)
    /\ jobs' = [jobs EXCEPT !.birthday = NextBirthdayRun(@), !.elapsed = r,
                            !.runs = @ + 1]
    /\ UNCHANGED <<store, conv_event, conv_birthday, user_data, selLog>>

NextSched ==
    \/ run
    \/ \E u \in Users : jobs.started /\ start(u)
    \/ \E u \in Users, data \in TimeButtons : jobs.started /\ set_time(u, data)
    \/ \E r \in RunTimes(jobs.morning, jobs.birthday), blocked \in Blockings :
          run_morning_job(r, blocked)
    \/ \E r \in RunTimes(jobs.birthday, jobs.morning), blocked \in Blockings :
          run_birthday_job(r, blocked)

SpecSched == InitSched /\ [][NextSched]_vars

(***************************************************************************)
(* SpecFault: the program started on a database file that already holds    *)
(* rows (init_database creates the tables only if they do not exist), some *)
(* with a date or a time that SQLite stores and selects and strptime       *)
(* rejects.  The reminders and the today view run.                         *)
(***************************************************************************)
StoredBirthDates ==
    { isoformat(Date(1995, 3, 1)),
      isoformat(Date(1995, 3, 1)) \o <<" ", "0", "0", ":", "0", "0", ":", "0", "0">> }

StoredEventTimes ==
    { NULL, <<"1", "5", ":", "3", "0", ":", "0", "0">>, <<"1", "5", ":", "3", "0">> }

StoredBirthday(i, u, text) ==
    [id |-> i, user_id |-> u, name |-> <<"Mia">>, birth_date |-> text]

StoredEvent(i, u, text) ==
    [id |-> i, user_id |-> u, title |-> <<"Dentist">>, description |-> NULL,
     event_date |-> isoformat(Date(2023, 3, 1)), event_time |-> text]

InitFault ==
    /\ users = [u \in Users |-> NewUserRow(u)]
    /\ \E a \in StoredBirthDates, b \in StoredBirthDates :
          birthdays \in { <<StoredBirthday(1, 1, a)>>,
                          <<StoredBirthday(1, 1, a), StoredBirthday(2, 1, b)>> }
    /\ \E t \in StoredEventTimes : events \in { <<>>, <<StoredEvent(1, 1, t)>> }
    /\ photos = <<>>
    /\ conv_event = [u \in Users |-> END]
    /\ conv_birthday = [u \in Users |-> END]
    /\ user_data = [u \in Users |-> EmptyDict]
    /\ now = ClockValues[1]
    /\ out = [op |-> "init"]
    /\ jobs = Idle
    /\ selLog = {}

(***************************************************************************)
(* SpecStored: the program started on a database file that already holds   *)
(* events of 2023-03-01, each with no time or with a time in the form      *)
(* HH:MM:SS that the views parse.  save_event itself stores no time (see   *)
(* save_event), so this is where the payloads list events with times.      *)
(***************************************************************************)
CanonicalEventTimes ==
    { NULL, <<"0", "9", ":", "0", "0", ":", "0", "0">>,
            <<"1", "5", ":", "3", "0", ":", "0", "0">> }

InitStored ==
    /\ users = [u \in Users |-> NewUserRow(u)]
    /\ \E k \in 0..MaxStored :
          \E t \in [1..k -> CanonicalEventTimes], o \in [1..k -> Users] :
              events = [i \in 1..k |-> StoredEvent(i, o[i], t[i])]
    /\ birthdays = <<>>
    /\ photos = <<>>
    /\ conv_event = [u \in Users |-> END]
    /\ conv_birthday = [u \in Users |-> END]
    /\ user_data = [u \in Users |-> EmptyDict]
    /\ now = ClockValues[1]
    /\ out = [op |-> "init"]
    /\ jobs = Idle
    /\ selLog = {}

NextStored ==
    \/ \E u \in Users : today(u)
    \/ \E blocked \in Blockings : morning_reminder(blocked)
    \/ ClockAdvance

SpecStored == InitStored /\ [][NextStored]_vars

NextFault ==
    \/ \E u \in Users, data \in TimeButtons : set_time(u, data)
    \/ \E u \in Users : today(u)
    \/ \E blocked \in Blockings : morning_reminder(blocked)
    \/ \E blocked \in Blockings : birthday_reminder(blocked)
    \/ ClockAdvance

SpecFault == InitFault /\ [][NextFault]_vars

(***************************************************************************)
(* SpecDaily: the midnight job alone, followed over MaxDays days, every    *)
(* run exactly at its scheduled time.  The database is an existing one:    *)
(* users who started the bot and at most one birthday, on 1 March.  selLog *)
(* records the runs whose gate was open and the chats they tried.          *)
(***************************************************************************)
MaxDays == 2

\* the instants at which the process starts: before midnight so that runs
\* fall on 00:04:59 and on 00:00:00, at noon, and inside the window
DailyStartClocks ==
    { At(2023, 2, 27, 23, 59, 49), At(2023, 2, 27, 23, 59, 50),
      At(2023, 2, 27, 12, 0, 0), At(2023, 2, 28, 0, 3, 0) }

InitDaily ==
    /\ users \in { [u \in {1} |-> NewUserRow(u)], [u \in Users |-> NewUserRow(u)] }
    /\ birthdays \in { <<>>, <<StoredBirthday(1, 1, isoformat(Date(1995, 3, 1)))>> }
    /\ events = <<>>
    /\ photos = <<>>
    /\ conv_event = [u \in Users |-> END]
    /\ conv_birthday = [u \in Users |-> END]
    /\ user_data = [u \in Users |-> EmptyDict]
    /\ now \in DailyStartClocks
    /\ out = [op |-> "init"]
    /\ jobs = Idle
    /\ selLog = {}

\* the job queue runs birthday_reminder at its scheduled time
run_birthday_job_on_time(blocked) ==
    /\ jobs.started
    /\ jobs.birthday < MaxDays * 86400
    /\ now' = ClockPlus(jobs.t0, jobs.birthday)
    /\ out' = BirthdayResult(now', blocked)
    /\ selLog' = IF out'.body
                 THEN selLog \cup
                      {[run |-> jobs.runs + 1, at |-> now', late |-> 0,
                        attempts |-> [i \in DOMAIN out'.results |->
                                         out'.results[i].chat_id]]}
                 ELSE selLog
    /\ jobs' = [jobs EXCEPT !.birthday = NextBirthdayRun(@),
                            !.elapsed = jobs.birthday, !.runs = @ + 1]
    /\ UNCHANGED <<store, conv_event, conv_birthday, user_data>>

NextDaily ==
    \/ run
    \/ \E blocked \in Blockings : run_birthday_job_on_time(blocked)

SpecDaily == InitDaily /\ [][NextDaily]_vars

(***************************************************************************)
(* Properties of the reminders and of the store.                           *)
(***************************************************************************)
Range(s) == {s[i] : i \in DOMAIN s}
Ids(lines) == {lines[i].id : i \in DOMAIN lines}
Ticks == {"morning_reminder", "birthday_reminder"}

\* the clock's time of day written HH:MM
ClockHHMM(t) == Pad2(t.sec \div 3600) \o <<":">> \o Pad2((t.sec \div 60) % 60)

\* C1: a morning tick selects exactly the stored users whose morning_time
\* is the clock's time of day written HH:MM, each once; a user whose
\* morning_time is another minute, or 'disabled', is not selected
C1_MorningSelection ==
    out.op = "morning_reminder" =>
        /\ Range(out.selected)
              = {u \in DOMAIN users : /\ users[u].morning_time = ClockHHMM(out.at)
                                      /\ users[u].morning_time # disabled}
        /\ Cardinality(Range(out.selected)) = Len(out.selected)

\* at 08:00 user 1 (08:00) is selected while user 2 (disabled) is stored
C1_Witness ==
    /\ out.op = "morning_reminder"
    /\ out.at.sec = 8 * 3600
    /\ out.selected = <<1>>
    /\ 2 \in DOMAIN users
    /\ users[2].morning_time = disabled

\* C2: in both ticks every selected recipient gets its own delivery
\* attempt, which fails only when that recipient itself is unreachable, and
\* the tick ends without an error whoever was unreachable
C2_FailureIsolation ==
    (out.op \in Ticks /\ out.body) =>
        /\ out.raised = NoError
        /\ Len(out.results) = Len(out.selected)
        /\ \A i \in DOMAIN out.results :
              /\ out.results[i].chat_id = out.selected[i]
              /\ out.results[i].status
                    = IF out.selected[i] \in out.blocked THEN "send_failed"
                      ELSE "sent"

\* the midnight tick fails to reach user 1 and still delivers to user 2
C2_Witness ==
    /\ out.op = "birthday_reminder"
    /\ Len(out.results) = 2
    /\ out.results[1].status = "send_failed"
    /\ out.results[2].status = "sent"

\* the owner of the stored birthday with this id (rows are never deleted)
BirthdayOwner(id) == birthdays[id].user_id

\* C3: a birthday is listed only to the user who stored it: in the today
\* view, in the lookahead view and in the messages of both ticks
C3_OwnBirthdaysOnly ==
    /\ out.op = "today" =>
          \A id \in Ids(out.message.birthdays) : BirthdayOwner(id) = out.user
    /\ out.op = "birthdays" =>
          \A id \in Ids(out.listed) : BirthdayOwner(id) = out.user
    /\ out.op \in Ticks =>
          \A i \in DOMAIN out.results :
              \A id \in Ids(out.results[i].message.birthdays) :
                  BirthdayOwner(id) = out.results[i].chat_id

\* the month and day of a stored birthday, read from its ISO text
BirthMonthDay(id) ==
    LET B == strptime_Ymd(birthdays[id].birth_date) IN <<B.m, B.d>>

\* the stored birthdays whose month and day are those of date D
MonthDayMatches(D) ==
    {id \in 1..Len(birthdays) : BirthMonthDay(id) = <<D.m, D.d>>}

\* C4: the midnight job's body runs exactly when the clock's time of day is
\* in [00:00, 00:05)
C4_MidnightWindow ==
    out.op = "birthday_reminder" => (out.body <=> out.at.sec < 5 * 60)

\* at 00:04:59 the body runs and delivers
C4_Witness ==
    /\ out.op = "birthday_reminder"
    /\ out.at.sec = 4 * 60 + 59
    /\ out.body
    /\ out.results # <<>>

\* C5: the birthdays a tick or the today view lists on date D are exactly
\* the stored ones whose month and day equal D's, whatever the years; a
\* 29 February birthday is listed on no day of a non-leap year
C5_MonthDayMatch ==
    /\ out.op = "today" =>
          Ids(out.message.birthdays) = MonthDayMatches(out.at.date)
    /\ (out.op = "birthday_reminder" /\ out.body) =>
          Ids(out.due) = MonthDayMatches(out.at.date)
    /\ out.op \in Ticks =>
          \A i \in DOMAIN out.results :
              Ids(out.results[i].message.birthdays) = MonthDayMatches(out.at.date)
    /\ (out.op \in Ticks \cup {"today"} /\ ~IsLeap(out.at.date.y)) =>
          \A id \in 1..Len(birthdays) :
              BirthMonthDay(id) = <<2, 29>> =>
                  /\ out.op = "today" => id \notin Ids(out.message.birthdays)
                  /\ out.op \in Ticks =>
                        \A i \in DOMAIN out.results :
                            id \notin Ids(out.results[i].message.birthdays)

\* on 2024-02-29 the midnight tick finds the birthday of 2000-02-29
C5_Witness ==
    /\ out.op = "birthday_reminder"
    /\ out.at.date = Date(2024, 2, 29)
    /\ Len(out.due) = 1
    /\ out.due[1].birth_date = isoformat(Date(2000, 2, 29))
    /\ out.results # <<>>

\* whole years from birth date B to date D
ExpectedAge(B, D) ==
    D.y - B.y - (IF D.m * 100 + D.d < B.m * 100 + B.d THEN 1 ELSE 0)

BirthDateOf(id) == strptime_Ymd(birthdays[id].birth_date)

\* C6: the age shown when a birthday is saved, and the age every listing
\* shows on the day it lists the birthday for, is the number of whole years
\* from the birth date to that day
C6_Age ==
    /\ (out.op = "save_birthday" /\ out.stored) =>
          out.age = ExpectedAge(BirthDateOf(out.id), out.today)
    /\ out.op = "today" =>
          \A k \in DOMAIN out.message.birthdays :
              out.message.birthdays[k].age
                 = ExpectedAge(BirthDateOf(out.message.birthdays[k].id), out.at.date)
    /\ out.op \in Ticks =>
          \A i \in DOMAIN out.results :
              \A k \in DOMAIN out.results[i].message.birthdays :
                  out.results[i].message.birthdays[k].age
                     = ExpectedAge(BirthDateOf(out.results[i].message.birthdays[k].id),
                                   out.at.date)
    /\ out.op = "birthdays" =>
          \A k \in DOMAIN out.listed :
              out.listed[k].age
                 = ExpectedAge(BirthDateOf(out.listed[k].id), out.listed[k].date)

\* saved on 2023-02-28, the day before the 28th birthday: age 27
C6_Witness ==
    /\ out.op = "save_birthday"
    /\ out.stored
    /\ out.today = Date(2023, 2, 28)
    /\ BirthDateOf(out.id) = Date(1995, 3, 1)
    /\ out.age = 27

\* the stored events of user U whose date is D
EventsOn(U, D) ==
    {id \in 1..Len(events) : /\ events[id].user_id = U
                             /\ strptime_Ymd(events[id].event_date) = D}

\* C7: the events listed for user U on date D, by the today view and by the
\* morning tick, are exactly U's stored events whose full date is D
C7_EventFullDate ==
    /\ (out.op = "today" /\ out.raised = NoError) =>
          Ids(out.message.events) = EventsOn(out.user, out.at.date)
    /\ out.op = "morning_reminder" =>
          \A i \in DOMAIN out.results :
              out.results[i].status # "not_built" =>
                  Ids(out.results[i].message.events)
                     = EventsOn(out.results[i].chat_id, out.at.date)

\* on 2023-03-01 user 1's morning message carries the event of that date
C7_Witness ==
    /\ out.op = "morning_reminder"
    /\ out.at.date = Date(2023, 3, 1)
    /\ \E i \in DOMAIN out.results :
          /\ out.results[i].chat_id = 1
          /\ Len(out.results[i].message.events) = 1

\* C8: every stored event, birthday and photo belongs to a stored user
C8_OwnersStored ==
    /\ \A i \in DOMAIN events : events[i].user_id \in DOMAIN users
    /\ \A i \in DOMAIN birthdays : birthdays[i].user_id \in DOMAIN users
    /\ \A i \in DOMAIN photos : photos[i].user_id \in DOMAIN users

\* C9: a stored date or time that fails to parse never aborts a tick: the
\* tick does not raise, and every recipient it selected still gets a
\* delivery attempt with its message
C9_MalformedNeverAborts ==
    (out.op \in Ticks /\ out.body) =>
        /\ out.raised = NoError
        /\ Len(out.results) = Len(out.selected)
        /\ \A i \in DOMAIN out.results : out.results[i].status # "not_built"

\* two clock values in the same minute of the same day
SameMinute(a, b) == a.date = b.date /\ a.sec \div 60 = b.sec \div 60

\* two runs of the morning job in one calendar minute that select a user both
DoubleSelection(a, b) ==
    /\ a.run < b.run
    /\ SameMinute(a.at, b.at)
    /\ a.selected \cap b.selected # {}

\* the statement of C10 as written: no user is selected by two morning
\* ticks that fall in the same calendar minute
C10_OncePerMinute ==
    \A a \in selLog, b \in selLog : ~DoubleSelection(a, b)

\* C10: two morning ticks fall in the same calendar minute and select the
\* same user only when the earlier of them ran later after its scheduled
\* time than the later one did
C10_OncePerMinuteUnlessDelayed ==
    \A a \in selLog, b \in selLog : DoubleSelection(a, b) => a.late > b.late

\* the tick scheduled at 07:59:59 ran at 08:00:00, the next one on time at
\* 08:00:59, and both selected user 1
C10_Witness ==
    \E a \in selLog, b \in selLog :
        /\ DoubleSelection(a, b)
        /\ a.at = At(2023, 3, 1, 8, 0, 0)
        /\ b.at = At(2023, 3, 1, 8, 0, 59)
        /\ 1 \in a.selected \cap b.selected

\* a text of the form HH:MM, hour 00..23 and minute 00..59
IsHHMM(s) ==
    /\ Len(s) = 5
    /\ s[3] = ":"
    /\ \A i \in {1, 2, 4, 5} : IsDigit(s[i])
    /\ DigitVal(s[1]) * 10 + DigitVal(s[2]) < 24
    /\ DigitVal(s[4]) * 10 + DigitVal(s[5]) < 60

\* C11: every stored user's morning_time is a valid HH:MM text or the
\* sentinel 'disabled'
C11_MorningTimeValid ==
    \A u \in DOMAIN users :
        users[u].morning_time = disabled \/ IsHHMM(users[u].morning_time)

\* C12: a malformed date text at the date stage of the event intake, a
\* malformed time text at its time stage, and a malformed date text at the
\* date stage of the birthday intake leave both conversations, the intake
\* buffer and the store as they were, and raise no error
C12_InputErrors ==
    [][ ( \/ out'.op = "get_event_date" /\ out'.text \in MalformedEventDateTexts
          \/ out'.op = "get_event_time" /\ out'.text \in MalformedEventTimeTexts
          \/ out'.op = "save_birthday" /\ out'.text \in MalformedBirthdayDateTexts )
        => /\ UNCHANGED <<store, conv_event, conv_birthday, user_data>>
           /\ out'.raised = NoError
           /\ out'.reprompt ]_vars

\* '25:00' was sent at the time stage: re-prompted, still at the time stage
C12_Witness ==
    /\ out.op = "get_event_time"
    /\ out.text \in MalformedEventTimeTexts
    /\ out.reprompt
    /\ conv_event[out.user] = "ADDING_EVENT_TIME"
    /\ events = <<>>

\* C13: once save_event or save_birthday has stored its record, or cancel
\* has run, the user's intake buffer is empty and the conversation has
\* ended, so that the user's next text is no further intake step
C13_BufferLifetime ==
    /\ (out.op = "save_event" /\ out.stored) =>
          /\ user_data[out.user] = EmptyDict
          /\ conv_event[out.user] = END
    /\ (out.op = "save_birthday" /\ out.stored) =>
          /\ user_data[out.user] = EmptyDict
          /\ conv_birthday[out.user] = END
    /\ out.op = "cancel" =>
          /\ user_data[out.user] = EmptyDict
          /\ conv_event[out.user] = END

\* minutes since midnight of a displayed time HH:MM; -1 for an all-day line
LineMinutes(line) ==
    IF line.time = AllDay THEN -1
    ELSE (DigitVal(line.time[1]) * 10 + DigitVal(line.time[2])) * 60
         + DigitVal(line.time[4]) * 10 + DigitVal(line.time[5])

\* the lines are in non-decreasing time order, the all-day lines first
InTimeOrder(lines) ==
    \A i \in DOMAIN lines, j \in DOMAIN lines :
        i < j => LineMinutes(lines[i]) <= LineMinutes(lines[j])

\* C14: in the today reply and in the morning message the events of a user
\* are listed in non-decreasing time-of-day order, the events without a
\* time all first; every event of the user on that day is listed
C14_PayloadOrder ==
    /\ (out.op = "today" /\ out.raised = NoError) =>
          /\ InTimeOrder(out.message.events)
          /\ Ids(out.message.events) = EventsOn(out.user, out.at.date)
          /\ Len(out.message.events) = Cardinality(Ids(out.message.events))
    /\ out.op = "morning_reminder" =>
          \A i \in DOMAIN out.results :
              out.results[i].status # "not_built" =>
                  /\ InTimeOrder(out.results[i].message.events)
                  /\ Ids(out.results[i].message.events)
                        = EventsOn(out.results[i].chat_id, out.at.date)

\* stored in the order 15:30, 09:00, no time; listed as no time, 09:00, 15:30
C14_Witness ==
    /\ out.op = "today"
    /\ Len(out.message.events) = 3
    /\ out.message.events[1].id = 3 /\ out.message.events[1].time = AllDay
    /\ out.message.events[2].id = 2 /\ out.message.events[2].time = strftime_HM(9, 0)
    /\ out.message.events[3].id = 1 /\ out.message.events[3].time = strftime_HM(15, 30)

\* C15: requested on date T, the lookahead lists a stored birthday at
\* offset i, 0 <= i < 30, exactly when the month and day of T + i days are
\* the birthday's; the today reply lists the birthdays of offset 0 only
C15_Lookahead ==
    /\ out.op = "birthdays" =>
          {<<out.listed[k].offset, out.listed[k].id>> : k \in DOMAIN out.listed}
             = {p \in (0..29) \X (1..Len(birthdays)) :
                   p[2] \in MonthDayMatches(AddDays(out.at.date, p[1]))}
    /\ out.op = "today" =>
          Ids(out.message.birthdays) = MonthDayMatches(AddDays(out.at.date, 0))

\* requested on 2023-02-28, the birthday of 1995-03-01 is listed at offset 1
C15_Witness ==
    /\ out.op = "birthdays"
    /\ out.at.date = Date(2023, 2, 28)
    /\ Len(out.listed) = 1
    /\ out.listed[1].offset = 1
    /\ BirthDateOf(out.listed[1].id) = Date(1995, 3, 1)

\* C16: a stored event or birthday stays stored, with the same owner,
\* title or name, date and time, through every step of the program
C16_RecordsPermanent ==
    [][ /\ \A i \in DOMAIN events :
              i \in DOMAIN events' /\ events'[i] = events[i]
        /\ \A i \in DOMAIN birthdays :
              i \in DOMAIN birthdays' /\ birthdays'[i] = birthdays[i] ]_vars

\* with an event and a birthday stored, their owner has sent /start again
C16_Witness ==
    /\ out.op = "start"
    /\ \E i \in DOMAIN events : events[i].user_id = out.user
    /\ \E i \in DOMAIN birthdays : birthdays[i].user_id = out.user

\* what both reminders would select and build at every clock value of the
\* model, every chat being reachable
TickResults ==
    [t \in Range(ClockValues) |-> <<MorningResult(t, {}), BirthdayResult(t, {})>>]

C18_TicksCarryNoState ==
    [][ out'.op \in Ticks =>
           /\ UNCHANGED <<users, events, birthdays, photos>>
           /\ \E blocked \in Blockings :
                 out' = IF out'.op = "morning_reminder"
                        THEN MorningResult(now', blocked)
                        ELSE BirthdayResult(now', blocked) ]_vars

\* the morning job has just selected user 1 for the second time in the
\* minute 08:00
C18_Witness ==
    /\ out.op = "morning_reminder"
    /\ 1 \in Range(out.selected)
    /\ \E e \in selLog :
          /\ e.at # out.at
          /\ SameMinute(e.at, out.at)
          /\ 1 \in e.selected

\* C19: start by a user who is already stored leaves that user's
\* morning_time and timezone as they were
C19_UpsertKeepsSettings ==
    [][ \A u \in DOMAIN users :
           (out'.op = "start" /\ out'.user = u) =>
               /\ users'[u].morning_time = users[u].morning_time
               /\ users'[u].timezone = users[u].timezone ]_vars

\* C20: with its gate open, birthday_reminder makes exactly one delivery
\* attempt to every stored user, whatever the user's morning_time, when a
\* stored birthday has today's month and day, and no attempt when none has
C20_MidnightRecipients ==
    (out.op = "birthday_reminder" /\ out.at.sec < 5 * 60) =>
        IF MonthDayMatches(out.at.date) # {}
        THEN /\ {out.results[i].chat_id : i \in DOMAIN out.results} = DOMAIN users
             /\ Len(out.results) = Cardinality(DOMAIN users)
        ELSE out.results = <<>>

\* a birthday is due; user 1, who disabled the morning reminder, and user 2
\* both get an attempt
C20_Witness ==
    /\ out.op = "birthday_reminder"
    /\ Len(out.results) = 2
    /\ users[1].morning_time = disabled
    /\ users[2].morning_time = strftime_HM(7, 0)

\* C23: set_time by user U with value V sets U's morning_time to V and changes
\* nothing else: U's other columns and every other user's row stay, no row is
\* created when U is not stored, and events, birthdays and photos stay
C23_SetTimeFrame ==
    [][ out'.op = "set_time" =>
           /\ DOMAIN users' = DOMAIN users
           /\ \A x \in DOMAIN users :
                 IF x = out'.user
                 THEN /\ users'[x].morning_time = out'.time_setting
                      /\ [users'[x] EXCEPT !.morning_time = users[x].morning_time]
                            = users[x]
                 ELSE users'[x] = users[x]
           /\ UNCHANGED <<events, birthdays, photos>> ]_vars

\* user 1, in the Warsaw zone, has just disabled the reminder; user 2 keeps
\* 07:00
C23_Witness ==
    /\ out.op = "set_time" /\ out.user = 1 /\ out.time_setting = disabled
    /\ DOMAIN users = {1, 2}
    /\ users[1].morning_time = disabled
    /\ users[1].timezone # DEFAULT_timezone
    /\ users[2].morning_time = strftime_HM(7, 0)

\* seconds from the start of the process to the k-th midnight after it
MidnightAfterStart(k) == (86400 - jobs.t0.sec) + k * 86400

\* the calendar day that begins at the k-th midnight after the start
DayAfterStart(k) == ClockPlus(jobs.t0, MidnightAfterStart(k)).date

\* the k-th midnight is not before the first run, and every run scheduled
\* before 00:05 of its day has been made
WindowPassed(k) ==
    /\ jobs.started
    /\ MidnightAfterStart(k) >= FirstRun
    /\ MidnightAfterStart(k) + 5 * 60 <= jobs.birthday

\* C21: with the midnight job run every 300 s exactly, no calendar day has
\* two runs with the gate open and no user gets two attempts in a day; every
\* calendar day whose midnight the process runs through has one run with the
\* gate open, which tries every stored user when a birthday falls on that day
C21_OncePerDay ==
    /\ \A a \in selLog, b \in selLog : a.at.date = b.at.date => a = b
    /\ \A a \in selLog : Cardinality(Range(a.attempts)) = Len(a.attempts)
    /\ \A k \in 0..MaxDays :
          WindowPassed(k) =>
              \E a \in selLog :
                  /\ a.at.date = DayAfterStart(k)
                  /\ MonthDayMatches(DayAfterStart(k)) # {}
                        => Range(a.attempts) = DOMAIN users

\* started at 23:59:49 on 27 February: the gate was open at 00:04:59 on
\* 28 February, nobody tried, and at 00:04:59 on 1 March, both users tried
C21_Witness ==
    \E a \in selLog, b \in selLog :
        /\ a.at = At(2023, 2, 28, 0, 4, 59) /\ a.attempts = <<>>
        /\ b.at = At(2023, 3, 1, 0, 4, 59) /\ Range(b.attempts) = {1, 2}

\* the stored form of a collected time: NULL for an all-day event, else
\* HH:MM:SS
CollectedTimeText(event_time) ==
    IF event_time = None THEN NULL
    ELSE strftime_HM(event_time.h, event_time.mi) \o <<":">> \o Pad2(event_time.s)

\* the buffer of a conversation that has passed name, date and time
PassedStages(u) ==
    /\ conv_event[u] = "ADDING_EVENT_DESC"
    /\ Has(user_data[u], "event_name")
    /\ Has(user_data[u], "event_date")
    /\ Has(user_data[u], "event_time")

\* C22: the events table changes only in the last intake step, of a
\* conversation that has passed name, date and time; that step stores exactly
\* one event, owned by the conversing user, with the title, date and time
\* collected; cancel and the steps of an unfinished intake store nothing
C22_EventIntakeOrder ==
    [][ /\ events' # events => (out'.op = "save_event" /\ PassedStages(out'.user))
        /\ (out'.op = "save_event" /\ PassedStages(out'.user)) =>
              /\ Len(events') = Len(events) + 1
              /\ SubSeq(events', 1, Len(events)) = events
              /\ LET row == events'[Len(events')]
                     d == user_data[out'.user]
                 IN  /\ row.user_id = out'.user
                     /\ row.title = d["event_name"]
                     /\ row.event_date = isoformat(d["event_date"])
                     /\ row.event_time = CollectedTimeText(d["event_time"]) ]_vars

====
